---- MODULE Spec2Model ----
(***************************************************************************)
(* A model of starling-server's persistence store (db/edgedb/database.py)  *)
(* and of the RouteDispatcher that synchronises provider transactions into *)
(* it (server/route_dispatcher.py).                                        *)
(*                                                                         *)
(* The store is three object sets, as in EdgeDB: Bank, Account and         *)
(* Transaction.  They are modelled as SETS OF RECORDS, not as functions    *)
(* keyed by uuid, so that "no two records share a uuid" is a property the  *)
(* upsert queries have to establish and not one the representation gives.  *)
(***************************************************************************)
EXTENDS Integers, Sequences, FiniteSets, TLC

VARIABLES banks, accounts, transactions, categories, dispatcher, saving, last

vars == <<banks, accounts, transactions, categories, dispatcher, saving, last>>

(***************************************************************************)
(* Input domains.                                                          *)
(***************************************************************************)
BankNames == {"b1", "b2"}
AccountIds == {"a1", "a2"}
AccountNames == {"n1", "n2"}
Currencies == {"GBP"}
CreatedAts == {1}
TxnIds == {"t1", "t2"}
Times == {1, 2}
CounterpartyNames == {"c1"}
References == {"r1", "r2"}
\* Amounts are in currency minor units (pence): 12.34 and 200000.01 pounds.
Amounts == {1234, 20000001}
\* Default categories the provider hands out (CategoryHelper's values).
CategoryIds == {"k1"}

\* AccountSchema: uuid, account_name, currency, created_at (bank_name is passed
\* to the upsert as its own argument).
AccountSchema ==
    [uuid : AccountIds, account_name : AccountNames,
     currency : Currencies, created_at : CreatedAts]

\* TransactionSchema as insert_or_update_transaction reads it.
TransactionSchema ==
    [uuid : TxnIds, account_uuid : AccountIds, time : Times,
     counterparty_name : CounterpartyNames, amount : Amounts,
     reference : References]

None == <<>>
Some(v) == <<v>>

\* Bank.auth_token_hash is never set by insert_or_update_account.
NoToken == "no-token"

(***************************************************************************)
(* <float32>$amount: the store keeps the amount as an IEEE-754 single.     *)
(* An amount of p minor units is the decimal p/100; it is rounded to the   *)
(* nearest value m * 2^-k with a 24-bit significand m (ties to even), and  *)
(* read back to minor-unit precision.  Float32Shift is k.                  *)
(***************************************************************************)
Pow2(n) == IF n = 0 THEN 1 ELSE IF n = 1 THEN 2 ELSE IF n = 2 THEN 4
           ELSE IF n = 3 THEN 8 ELSE IF n = 4 THEN 16 ELSE IF n = 5 THEN 32
           ELSE 64

RoundHalfEven(n, d) ==
    LET q == n \div d
        r == n % d
    IN  IF 2 * r < d THEN q
        ELSE IF 2 * r > d THEN q + 1
        ELSE q + (q % 2)

\* 2^17 pounds = 13107200 pence: below it the spacing of singles is under one
\* minor unit, so the minor-unit value survives the cast.
Float32Shift(a) ==
    CHOOSE k \in 0..6 :
        /\ (8388608 \div Pow2(k)) * 100 <= a
        /\ a < (16777216 \div Pow2(k)) * 100

Float32Magnitude(a) ==
    IF a < 13107200 THEN a
    ELSE LET k == Float32Shift(a)
             m == RoundHalfEven(a * Pow2(k), 100)
         IN  RoundHalfEven(m * 100, Pow2(k))

Float32(p) == IF p < 0 THEN 0 - Float32Magnitude(0 - p) ELSE Float32Magnitude(p)

(***************************************************************************)
(* The store as a value, so that the queries are operators on it.          *)
(***************************************************************************)
Store == [banks |-> banks, accounts |-> accounts, transactions |-> transactions]

AccountsWithUuid(S, u) == {r \in S.accounts : r.uuid = u}
TransactionsWithUuid(S, u) == {r \in S.transactions : r.uuid = u}
TransactionsOfAccount(S, u) == {r \in S.transactions : r.account = u}
AccountsOfBank(S, n) == {r \in S.accounts : r.bank = n}

\* A Transaction inserted with an empty `account` set would have this owner.
NoAccount == "no-account"

(***************************************************************************)
(* Schema facts the queries rely on.  The schema (dbschema/*.esdl) is not  *)
(* part of the sources; these follow the data model's invariants:          *)
(* a Transaction always references an Account (a required link), deleting  *)
(* a Bank deletes its Accounts and deleting an Account its Transactions.   *)
(***************************************************************************)
AccountLinkRequired == TRUE

\* delete Account <those in `gone`>, with the cascade to their Transactions.
CascadeDeleteAccounts(S, gone) ==
    [S EXCEPT !.accounts = S.accounts \ gone,
              !.transactions =
                  {t \in S.transactions : t.account \notin {a.uuid : a \in gone}}]

\* delete Bank <those named in `names`>, with the cascade to their Accounts.
CascadeDeleteBanks(S, names) ==
    LET S1 == CascadeDeleteAccounts(S, {a \in S.accounts : a.bank \in names})
    IN  [S1 EXCEPT !.banks = {b \in S.banks : b.name \notin names}]

(***************************************************************************)
(* Database.insert_or_update_account(bank_name, account)                   *)
(***************************************************************************)
\* insert Bank { name := $name } unless conflict
insert_bank_unless_conflict(S, bank_name) ==
    IF \E b \in S.banks : b.name = bank_name
    THEN S
    ELSE [S EXCEPT !.banks =
              S.banks \cup {[name |-> bank_name, auth_token_hash |-> NoToken]}]

\* Mutant: the conflict clause is lost and every upsert inserts.
M_insert_or_update_account_always_inserts(S, bank_name, account) ==
    LET S1 == insert_bank_unless_conflict(S, bank_name)
    IN  [S1 EXCEPT !.accounts = S1.accounts \cup
            {[uuid |-> account.uuid, bank |-> bank_name,
              name |-> account.account_name, currency |-> account.currency,
              created_at |-> account.created_at]}]

\* insert Account {...} unless conflict on .uuid
\*   else (update Account set { name, currency, created_at })
insert_or_update_account(S, bank_name, account) ==
    LET S1 == insert_bank_unless_conflict(S, bank_name)
    IN  IF AccountsWithUuid(S1, account.uuid) # {}
        THEN [S1 EXCEPT !.accounts =
                 {IF r.uuid = account.uuid
                  THEN [r EXCEPT !.name = account.account_name,
                                 !.currency = account.currency,
                                 !.created_at = account.created_at]
                  ELSE r : r \in S1.accounts}]
        ELSE [S1 EXCEPT !.accounts = S1.accounts \cup
                 {[uuid |-> account.uuid, bank |-> bank_name,
                   name |-> account.account_name, currency |-> account.currency,
                   created_at |-> account.created_at]}]

(***************************************************************************)
(* Database.insert_or_update_transaction(transaction)                      *)
(***************************************************************************)
\* with account := (select Account filter .uuid = <uuid>$account_uuid)
select_account_link(S, account_uuid) ==
    IF AccountsWithUuid(S, account_uuid) # {} THEN account_uuid ELSE NoAccount

\* The insert branch is taken (no conflict on .uuid) and `account` is empty:
\* the required link has no value and the query raises.
insert_or_update_transaction_raises(S, t) ==
    /\ TransactionsWithUuid(S, t.uuid) = {}
    /\ select_account_link(S, t.account_uuid) = NoAccount
    /\ AccountLinkRequired

NewTransaction(owner, t) ==
    [uuid |-> t.uuid, account |-> owner, time |-> t.time,
     counterparty_name |-> t.counterparty_name,
     amount |-> Float32(t.amount), reference |-> t.reference]

\* Mutant: the owner is taken from the argument without selecting the Account.
M_insert_or_update_transaction_no_select(S, t) ==
    IF TransactionsWithUuid(S, t.uuid) # {}
    THEN [S EXCEPT !.transactions =
             {IF r.uuid = t.uuid
              THEN [r EXCEPT !.time = t.time,
                             !.counterparty_name = t.counterparty_name,
                             !.amount = Float32(t.amount),
                             !.reference = t.reference]
              ELSE r : r \in S.transactions}]
    ELSE [S EXCEPT !.transactions =
             S.transactions \cup {NewTransaction(t.account_uuid, t)}]

\* Mutant: on conflict the owner is set from the argument as well.
M_insert_or_update_transaction_moves(S, t) ==
    IF TransactionsWithUuid(S, t.uuid) # {}
    THEN [S EXCEPT !.transactions =
             {IF r.uuid = t.uuid
              THEN [r EXCEPT !.account = select_account_link(S, t.account_uuid),
                             !.time = t.time,
                             !.counterparty_name = t.counterparty_name,
                             !.amount = Float32(t.amount),
                             !.reference = t.reference]
              ELSE r : r \in S.transactions}]
    ELSE IF insert_or_update_transaction_raises(S, t)
    THEN S
    ELSE [S EXCEPT !.transactions = S.transactions \cup
             {NewTransaction(select_account_link(S, t.account_uuid), t)}]

\* Mutant: on conflict the amount is added to the stored one, not assigned.
M_insert_or_update_transaction_accumulates(S, t) ==
    IF TransactionsWithUuid(S, t.uuid) # {}
    THEN [S EXCEPT !.transactions =
             {IF r.uuid = t.uuid
              THEN [r EXCEPT !.time = t.time,
                             !.counterparty_name = t.counterparty_name,
                             !.amount = r.amount + Float32(t.amount),
                             !.reference = t.reference]
              ELSE r : r \in S.transactions}]
    ELSE IF insert_or_update_transaction_raises(S, t)
    THEN S
    ELSE [S EXCEPT !.transactions = S.transactions \cup
             {NewTransaction(select_account_link(S, t.account_uuid), t)}]

\* insert Transaction {...} unless conflict on .uuid
\*   else (update Transaction set { time, counterparty_name, amount, reference })
insert_or_update_transaction(S, t) ==
    IF TransactionsWithUuid(S, t.uuid) # {}
    THEN [S EXCEPT !.transactions =
             {IF r.uuid = t.uuid
              THEN [r EXCEPT !.time = t.time,
                             !.counterparty_name = t.counterparty_name,
                             !.amount = Float32(t.amount),
                             !.reference = t.reference]
              ELSE r : r \in S.transactions}]
    ELSE IF insert_or_update_transaction_raises(S, t)
    THEN S
    ELSE [S EXCEPT !.transactions = S.transactions \cup
             {NewTransaction(select_account_link(S, t.account_uuid), t)}]

(***************************************************************************)
(* Database.get_transactions_for_account(account_uuid)                     *)
(***************************************************************************)
\* select Account { transactions: { uuid, amount } }
\*   filter Account.uuid = <uuid>$account_uuid
\* The query's result is returned as it is: the selected Account objects
\* (none when no Account has the uuid), each with its transactions link.
get_transactions_for_account(S, account_uuid) ==
    {[transactions |->
         {[uuid |-> t.uuid, amount |-> t.amount] : t \in TransactionsOfAccount(S, a.uuid)}]
        : a \in AccountsWithUuid(S, account_uuid)}

(***************************************************************************)
(* Database.reset(accounts): `delete Bank;`, then the accounts are only    *)
(* printed.                                                                *)
(***************************************************************************)
\* Mutant: reset deletes the Banks that own no Account only.
M_reset_unowned_banks_only(S) ==
    CascadeDeleteBanks(S, {b.name : b \in {x \in S.banks : AccountsOfBank(S, x.name) = {}}})

reset(S) == CascadeDeleteBanks(S, {b.name : b \in S.banks})

(***************************************************************************)
(* The delete operations the tests call (account_delete, bank_delete,      *)
(* transactions_delete_for_account_uuid); database.py does not hold them.  *)
(***************************************************************************)
\* Mutant: the cascade takes every Transaction, not only the Account's own.
M_account_delete_all_transactions(S, account_uuid) ==
    [S EXCEPT !.accounts = S.accounts \ AccountsWithUuid(S, account_uuid),
              !.transactions = {}]

account_delete(S, account_uuid) ==
    CascadeDeleteAccounts(S, AccountsWithUuid(S, account_uuid))

\* Mutant: the Bank goes, its Accounts stay.
M_bank_delete_no_cascade(S, bank_name) ==
    [S EXCEPT !.banks = {b \in S.banks : b.name # bank_name}]

bank_delete(S, bank_name) == CascadeDeleteBanks(S, {bank_name})

\* Mutant: the account filter is lost.
M_transactions_delete_unfiltered(S, account_uuid) ==
    [S EXCEPT !.transactions = {}]

transactions_delete_for_account_uuid(S, account_uuid) ==
    [S EXCEPT !.transactions = S.transactions \ TransactionsOfAccount(S, account_uuid)]

(***************************************************************************)
(* The record of the last operation: which one, on what, and how it ended. *)
(***************************************************************************)
\* op: the operation; id: the uuid or name it was given; arg: the record an
\* upsert was given; outcome: "ok" / "returned" or "raised"; error: the
\* exception that left the operation; removed: how many records of
\* the next level down (Transactions, or Accounts for a Bank) it took away.
\* For a sync: start and end as the caller gave them, now as the clock read,
\* call: the bounds the adapter was called with (None: it was not called),
\* fetched: what the provider returned (None: nothing was received),
\* result: the list returned to the caller (None: nothing was returned).
NoOp ==
    [op |-> "init", id |-> "", arg |-> None, outcome |-> "", error |-> "",
     removed |-> 0, start |-> None, end |-> None, now |-> 0, call |-> None,
     fetched |-> None, result |-> None]

Did(op, id, arg, outcome, removed) ==
    [NoOp EXCEPT !.op = op, !.id = id, !.arg = arg, !.outcome = outcome,
                 !.error = IF outcome = "raised" THEN "Error" ELSE "",
                 !.removed = removed]

SetStore(S) ==
    /\ banks' = S.banks
    /\ accounts' = S.accounts
    /\ transactions' = S.transactions

Init ==
    /\ banks = {}
    /\ accounts = {}
    /\ transactions = {}
    /\ categories = <<>>
    /\ dispatcher = [state |-> "none", apis |-> <<>>]
    /\ saving = None
    /\ last = NoOp

account_upsert_of(Given) ==
    \E bank_name \in BankNames, account \in Given :
        /\ UNCHANGED <<categories, dispatcher, saving>>
        /\ SetStore(insert_or_update_account(Store, bank_name, account))
        /\ last' = Did("account_upsert", account.uuid,
                       [bank_name |-> bank_name, account |-> account], "ok", 0)

AccountUpsert == account_upsert_of(AccountSchema)

\* The same upsert for the batch operations, which do not look at the Bank:
\* every Account is registered under one Bank name.
AccountRegisterOneBank ==
    \E account \in {a \in AccountSchema : a.account_name = "n1"} :
        /\ UNCHANGED <<categories, dispatcher, saving>>
        /\ SetStore(insert_or_update_account(Store, "b1", account))
        /\ last' = Did("account_upsert", account.uuid,
                       [bank_name |-> "b1", account |-> account], "ok", 0)

\* The same upsert, as the dispatcher's process sees accounts registered:
\* the display name does not matter there and is held to one value.
AccountRegister ==
    account_upsert_of({a \in AccountSchema : a.account_name = "n1"})

TransactionUpsert ==
    \E t \in TransactionSchema :
        /\ UNCHANGED <<categories, dispatcher, saving>>
        /\ SetStore(insert_or_update_transaction(Store, t))
        /\ last' = Did("transaction_upsert", t.uuid, t,
                       IF insert_or_update_transaction_raises(Store, t)
                       THEN "raised" ELSE "ok", 0)

AccountDelete ==
    \E u \in AccountIds :
        /\ UNCHANGED <<categories, dispatcher, saving>>
        /\ SetStore(account_delete(Store, u))
        /\ last' = Did("account_delete", u, None, "ok",
                       Cardinality(TransactionsOfAccount(Store, u)))

BankDelete ==
    \E n \in BankNames :
        /\ UNCHANGED <<categories, dispatcher, saving>>
        /\ SetStore(bank_delete(Store, n))
        /\ last' = Did("bank_delete", n, None, "ok",
                       Cardinality(AccountsOfBank(Store, n)))

TransactionsDelete ==
    \E u \in AccountIds :
        /\ UNCHANGED <<categories, dispatcher, saving>>
        /\ SetStore(transactions_delete_for_account_uuid(Store, u))
        /\ last' = Did("transactions_delete", u, None, "ok",
                       Cardinality(TransactionsOfAccount(Store, u)))

TransactionsSelect ==
    \E u \in AccountIds :
        /\ UNCHANGED <<banks, accounts, transactions, categories, dispatcher, saving>>
        /\ last' = [Did("transactions_select", u, None, "returned", 0)
                       EXCEPT !.result = Some(get_transactions_for_account(Store, u))]

Reset ==
    /\ UNCHANGED <<categories, dispatcher, saving>>
    /\ SetStore(reset(Store))
    /\ last' = Did("reset", "", None, "ok", Cardinality(transactions))

(***************************************************************************)
(* CategoryHelper: the file of account uuid -> default category pairs.     *)
(* `categories` is the file's contents, a function on the uuids it holds.  *)
(***************************************************************************)
\* CategoryHelper.insert: one provider call; nothing is written when the
\* provider reports no default category for the account.
CategoryInsert ==
    \E account_uuid \in AccountIds, found \in {None} \cup {Some(c) : c \in CategoryIds} :
        /\ categories' =
              IF found = None THEN categories
              ELSE [u \in DOMAIN categories \cup {account_uuid} |->
                       IF u = account_uuid THEN found[1] ELSE categories[u]]
        /\ last' = Did("category_insert", account_uuid, None, "ok", 0)
        /\ UNCHANGED <<banks, accounts, transactions, dispatcher, saving>>

\* CategoryHelper.remove
CategoryRemove ==
    \E account_uuid \in AccountIds :
        /\ categories' =
              IF account_uuid \in DOMAIN categories
              THEN [u \in DOMAIN categories \ {account_uuid} |-> categories[u]]
              ELSE categories
        /\ last' = Did("category_remove", account_uuid, None, "ok", 0)
        /\ UNCHANGED <<banks, accounts, transactions, dispatcher, saving>>

\* CategoryHelper._category_for_account_id:
\*   return uuid.UUID(config_file.get(str(account_uuid)))
\* With no entry for the account, get gives None and uuid.UUID(None) raises
\* TypeError.
_category_for_account_id_raises(account_uuid) == account_uuid \notin DOMAIN categories

_category_for_account_id(account_uuid) == categories[account_uuid]

CategoryResolve ==
    \E account_uuid \in AccountIds :
        /\ last' =
              IF _category_for_account_id_raises(account_uuid)
              THEN [Did("category_resolve", account_uuid, None, "raised", 0)
                       EXCEPT !.error = "TypeError"]
              ELSE [Did("category_resolve", account_uuid, None, "returned", 0)
                       EXCEPT !.result = Some(_category_for_account_id(account_uuid))]
        /\ UNCHANGED <<banks, accounts, transactions, categories, dispatcher, saving>>

(***************************************************************************)
(* CategoryHelper's file, step by step.  A mutation loads the file, changes *)
(* the loaded table and calls _save, which is                              *)
(*     with open(self._storage_filepath, "w") as f: toml.dump(config, f)   *)
(* open(..., "w") truncates the file where it is; the table is written     *)
(* into it afterwards.  `saving` is the mutation under way or last made:   *)
(* the contents it loaded, the contents it writes, and how far it is.      *)
(* One writer at a time (no mutation starts while another is under way);   *)
(* readers are other processes and come at any moment.                     *)
(***************************************************************************)
\* config_file[str(account_uuid)] = default_category
config_with(config_file, account_uuid, default_category) ==
    [u \in DOMAIN config_file \cup {account_uuid} |->
        IF u = account_uuid THEN default_category ELSE config_file[u]]

\* del config_file[str(account_uuid)]
config_without(config_file, account_uuid) ==
    [u \in DOMAIN config_file \ {account_uuid} |-> config_file[u]]

\* toml.load of the file as it is now.
_load == categories

\* What the file holds once _save has opened it: nothing.
_save_open(config_file) == <<>>

\* What the file holds once the with block is left.
_save_dump(config_file) == config_file

Saving(before, after, pc) == Some([before |-> before, after |-> after, pc |-> pc])

\* insert, up to the call of _save (the provider knows a category), or
\* remove of a stored account, up to the call of _save.
CategoryMutateBegin ==
    /\ IF saving = None THEN TRUE ELSE saving[1].pc \in {"done", "interrupted"}
    /\ \E account_uuid \in AccountIds :
          \/ \E default_category \in CategoryIds :
                /\ saving' = Saving(_load, config_with(_load, account_uuid, default_category),
                                    "loaded")
                /\ last' = Did("category_insert_begin", account_uuid, None, "ok", 0)
          \/ /\ account_uuid \in DOMAIN _load
             /\ saving' = Saving(_load, config_without(_load, account_uuid), "loaded")
             /\ last' = Did("category_remove_begin", account_uuid, None, "ok", 0)
    /\ UNCHANGED <<banks, accounts, transactions, categories, dispatcher>>

\* _save: open(self._storage_filepath, "w")
SaveOpen ==
    /\ saving # None
    /\ saving[1].pc = "loaded"
    /\ categories' = _save_open(saving[1].after)
    /\ saving' = Saving(saving[1].before, saving[1].after, "opened")
    /\ last' = Did("save_open", "", None, "ok", 0)
    /\ UNCHANGED <<banks, accounts, transactions, dispatcher>>

\* _save: toml.dump(config_file, f) and the close of the file
SaveDump ==
    /\ saving # None
    /\ saving[1].pc = "opened"
    /\ categories' = _save_dump(saving[1].after)
    /\ saving' = Saving(saving[1].before, saving[1].after, "done")
    /\ last' = Did("save_dump", "", None, "ok", 0)
    /\ UNCHANGED <<banks, accounts, transactions, dispatcher>>

\* The writing process is stopped between the open and the write.
SaveInterrupted ==
    /\ saving # None
    /\ saving[1].pc = "opened"
    /\ saving' = Saving(saving[1].before, saving[1].after, "interrupted")
    /\ last' = Did("save_interrupted", "", None, "raised", 0)
    /\ UNCHANGED <<banks, accounts, transactions, categories, dispatcher>>

\* Another process reads the store: CategoryHelper._load.
CategoryLoad ==
    /\ last' = [Did("category_load", "", None, "returned", 0)
                   EXCEPT !.result = Some(_load)]
    /\ UNCHANGED <<banks, accounts, transactions, categories, dispatcher, saving>>

(***************************************************************************)
(* RouteDispatcher.__init__ / _build_api_list                              *)
(***************************************************************************)
\* get_class_for_bank_name (server/config_helper.py, not part of the
\* sources): the provider class registered for a Bank name.  BankNames are
\* the names with a class; a name without one fails the lookup with
\* UnknownProviderError.
UnknownBankNames == {"b0"}

get_class_for_bank_name_raises(bank_name) == bank_name \notin BankNames

\* An Account is stored under a Bank name no provider class is registered for.
AccountRegisterUnknown ==
    \E bank_name \in UnknownBankNames,
       account \in {a \in AccountSchema : a.account_name = "n1"} :
        /\ UNCHANGED <<categories, dispatcher, saving>>
        /\ SetStore(insert_or_update_account(Store, bank_name, account))
        /\ last' = Did("account_upsert", account.uuid,
                       [bank_name |-> bank_name, account |-> account], "ok", 0)

\* StarlingProvider.__init__ with category_check left True: the default
\* category is looked up, and the constructor raises when there is none.
StarlingProvider_init_raises(account_uuid) ==
    _category_for_account_id_raises(account_uuid)

\* Mutant: the constructor looks the category up and does not keep it.
M_StarlingProvider_init_category_not_kept(auth_token, account_uuid, bank_name) ==
    [auth_token |-> auth_token, account_uuid |-> account_uuid,
     bank_name |-> bank_name, default_category |-> "unset"]

StarlingProvider_init(auth_token, account_uuid, bank_name) ==
    [auth_token |-> auth_token, account_uuid |-> account_uuid,
     bank_name |-> bank_name, default_category |-> categories[account_uuid]]

\* `for bank in banks_db: for account in bank.accounts`: the query gives the
\* Banks, and each Bank's Accounts, in no stated order.
BankMajorOrders(S) ==
    {order \in [1..Cardinality(S.accounts) -> S.accounts] :
        /\ \A i, j \in DOMAIN order : i # j => order[i] # order[j]
        /\ \A i, j, k \in DOMAIN order :
              (i < j /\ j < k /\ order[i].bank = order[k].bank)
                  => order[j].bank = order[i].bank}

\* Mutant: a Bank name without a class is passed over in silence.
M__build_api_list_raises_lookup_ignored(S) ==
    \E a \in S.accounts : StarlingProvider_init_raises(a.uuid)

\* Nothing in the loop catches: the first lookup or constructor that raises
\* ends _build_api_list, and with it RouteDispatcher.__init__.
_build_api_list_raises(S) ==
    \E a \in S.accounts :
        get_class_for_bank_name_raises(a.bank) \/ StarlingProvider_init_raises(a.uuid)

\* The exception of the first Account, in iteration order, that fails.
_build_api_list_error(S, order) ==
    LET bad == {i \in DOMAIN order :
                   \/ get_class_for_bank_name_raises(order[i].bank)
                   \/ StarlingProvider_init_raises(order[i].uuid)}
        first == CHOOSE i \in bad : \A j \in bad : i <= j
    IN  IF get_class_for_bank_name_raises(order[first].bank)
        THEN "UnknownProviderError"
        ELSE "TypeError"

\* Mutant: the list is returned after the first Bank's Accounts.
M__build_api_list_first_bank_only(S, order) ==
    [i \in {j \in DOMAIN order : order[j].bank = order[1].bank} |->
        [auth_token |-> (CHOOSE b \in S.banks : b.name = order[i].bank).auth_token_hash,
         account_uuid |-> order[i].uuid, bank_name |-> order[i].bank,
         default_category |-> categories[order[i].uuid]]]

_build_api_list(S, order) ==
    [i \in DOMAIN order |->
        StarlingProvider_init(
            (CHOOSE b \in S.banks : b.name = order[i].bank).auth_token_hash,
            order[i].uuid, order[i].bank)]

Build ==
    \E order \in BankMajorOrders(Store) :
        /\ IF _build_api_list_raises(Store)
           THEN /\ dispatcher' = [state |-> "failed", apis |-> <<>>]
                /\ last' = [Did("build", "", None, "raised", 0)
                               EXCEPT !.error = _build_api_list_error(Store, order)]
           ELSE /\ dispatcher' = [state |-> "built", apis |-> _build_api_list(Store, order)]
                /\ last' = Did("build", "", None, "ok", 0)
        /\ UNCHANGED <<banks, accounts, transactions, categories, saving>>

(***************************************************************************)
(* RouteDispatcher.get_transactions_for_account_id_between                 *)
(***************************************************************************)
default_interval_days == 7

\* `if start_date or end_date is None:` -- a datetime is always truthy, so
\* the test is "start_date is given, or end_date is not".
\* Mutant: `and` for `or`.
M_window_is_defaulted_and(start_date, end_date) ==
    start_date # None /\ end_date = None

window_is_defaulted(start_date, end_date) == start_date # None \/ end_date = None

\* end_date = datetime.now(); start_date = end_date - timedelta(days=...)
window_for(start_date, end_date, now) ==
    IF window_is_defaulted(start_date, end_date)
    THEN [start |-> Some(now - default_interval_days), end |-> Some(now)]
    ELSE [start |-> start_date, end |-> end_date]

\* next(api for api in self.apis if api.account_uuid == account_uuid):
\* no default is given, so an exhausted generator raises StopIteration,
\* which leaves the coroutine as a RuntimeError.
_get_api_for_id_raises(apis, account_uuid) ==
    \A i \in DOMAIN apis : apis[i].account_uuid # account_uuid

_get_api_for_id(apis, account_uuid) ==
    LET hits == {i \in DOMAIN apis : apis[i].account_uuid = account_uuid}
    IN  apis[CHOOSE i \in hits : \A j \in hits : i <= j]

\* StarlingProvider.get_transactions_between formats both bounds with
\* strftime before the request: a None bound raises AttributeError.
get_transactions_between_raises(start_date, end_date) ==
    start_date = None \/ end_date = None

\* What the provider can answer for one account: an HTTP error, or a feed of
\* at most MaxFetch items, each made a TransactionSchema of the adapter's
\* account by _to_transaction_schema_list.
MaxFetch == 1

FeedItems ==
    {t \in TransactionSchema : t.amount = 1234 /\ t.reference = "r1"}

_to_transaction_schema_list(account_uuid) ==
    UNION {[1..n -> {t \in FeedItems : t.account_uuid = account_uuid}] : n \in 0..MaxFetch}

\* Mutant: the loop body is lost and nothing is saved.
M_upsert_each_saves_nothing(S, txns) == [store |-> S, raised |-> FALSE]

\* for transaction in transactions: self.db.upsert_transaction(transaction)
\* -- in order, stopping at the first upsert that raises.
RECURSIVE upsert_each(_, _)
upsert_each(S, txns) ==
    IF txns = <<>> THEN [store |-> S, raised |-> FALSE]
    ELSE IF insert_or_update_transaction_raises(S, Head(txns))
    THEN [store |-> S, raised |-> TRUE]
    ELSE upsert_each(insert_or_update_transaction(S, Head(txns)), Tail(txns))

StartArgs == {None, Some(3)}
EndArgs == {None, Some(8)}
Nows == {20}

Synced(account_id, start_date, end_date, now, outcome, error, call, fetched, result) ==
    [NoOp EXCEPT !.op = "sync", !.id = account_id, !.outcome = outcome,
                 !.error = error,
                 !.start = start_date, !.end = end_date, !.now = now,
                 !.call = call, !.fetched = fetched, !.result = result]

\* Mutant: a transaction is saved before the provider is asked, and the
\* request then fails.
M_get_transactions_for_account_id_between_saves_first(account_id, start_date, end_date, now) ==
    \E t \in {x \in FeedItems : x.account_uuid = account_id} :
        /\ ~_get_api_for_id_raises(dispatcher.apis, account_id)
        /\ SetStore(insert_or_update_transaction(Store, t))
        /\ last' = Synced(account_id, start_date, end_date, now,
                          "raised", "HTTPError",
                          Some(window_for(start_date, end_date, now)), None, None)

get_transactions_for_account_id_between(account_id, start_date, end_date, now) ==
    LET w == window_for(start_date, end_date, now)
    IN  IF _get_api_for_id_raises(dispatcher.apis, account_id)
        THEN \* the coroutine ends here; `if api is None: return` is never reached
             /\ last' = Synced(account_id, start_date, end_date, now,
                               "raised", "RuntimeError(StopIteration)",
                               None, None, None)
             /\ UNCHANGED <<banks, accounts, transactions>>
        ELSE LET api == _get_api_for_id(dispatcher.apis, account_id)
             IN  IF get_transactions_between_raises(w.start, w.end)
                 THEN /\ last' = Synced(account_id, start_date, end_date, now,
                                        "raised", "AttributeError", Some(w), None, None)
                      /\ UNCHANGED <<banks, accounts, transactions>>
                 ELSE \/ \* _get_endpoint: httpx.HTTPError, re-raised
                         /\ last' = Synced(account_id, start_date, end_date, now,
                                           "raised", "HTTPError", Some(w), None, None)
                         /\ UNCHANGED <<banks, accounts, transactions>>
                      \/ \E txns \in _to_transaction_schema_list(api.account_uuid) :
                         \E done \in {upsert_each(Store, txns)} :
                                /\ SetStore(done.store)
                                /\ last' = Synced(account_id, start_date, end_date, now,
                                                  IF done.raised THEN "raised" ELSE "returned",
                                                  IF done.raised THEN "Error" ELSE "",
                                                  Some(w), Some(txns),
                                                  IF done.raised THEN None ELSE Some(txns))

Sync ==
    /\ dispatcher.state = "built"
    /\ \E account_id \in AccountIds, start_date \in StartArgs, end_date \in EndArgs,
          now \in Nows :
          get_transactions_for_account_id_between(account_id, start_date, end_date, now)
    /\ UNCHANGED <<categories, dispatcher, saving>>

(***************************************************************************)
(* RouteDispatcher.get_transactions_between: the sync of all accounts.     *)
(***************************************************************************)
\* Database.get_accounts(as_schema=True): every stored Account, in the order
\* the query gives them, which it does not state.
get_accounts(S) ==
    {order \in [1..Cardinality(S.accounts) -> S.accounts] :
        \A i, j \in DOMAIN order : i # j => order[i] # order[j]}

\* What the provider answers for each Account of `order`, were it asked:
\* None for an HTTP error, or Some feed for that Account.
ProviderResponses(order) ==
    LET answers ==
            {None} \cup
            {Some(txns) : txns \in UNION {_to_transaction_schema_list(u) : u \in AccountIds}}
    IN  {responses \in [DOMAIN order -> answers] :
            \A i \in DOMAIN order :
                \/ responses[i] = None
                \/ \A k \in DOMAIN responses[i][1] :
                       responses[i][1][k].account_uuid = order[i].uuid}

\* for account in accounts:
\*     result = await self.get_transactions_for_account_id_between(...)
\*     transactions.extend(result)
\* Nothing catches around the call: the first account whose sync raises ends
\* the loop and the coroutine, with the earlier accounts' upserts applied.
RECURSIVE sync_each(_, _, _, _, _)
sync_each(S, order, responses, w, transactions_so_far) ==
    IF order = <<>>
    THEN [store |-> S, error |-> "", transactions |-> transactions_so_far]
    ELSE IF _get_api_for_id_raises(dispatcher.apis, Head(order).uuid)
    THEN [store |-> S, error |-> "RuntimeError(StopIteration)",
          transactions |-> transactions_so_far]
    ELSE IF get_transactions_between_raises(w.start, w.end)
    THEN [store |-> S, error |-> "AttributeError", transactions |-> transactions_so_far]
    ELSE IF Head(responses) = None
    THEN [store |-> S, error |-> "HTTPError", transactions |-> transactions_so_far]
    ELSE LET done == upsert_each(S, Head(responses)[1])
         IN  IF done.raised
             THEN [store |-> done.store, error |-> "Error",
                   transactions |-> transactions_so_far]
             ELSE sync_each(done.store, Tail(order), Tail(responses), w,
                            transactions_so_far \o Head(responses)[1])

\* Mutant: the sort is lost and the concatenation is returned as it is.
M_sort_by_time_reverse_lost(txns) == txns

\* transactions.sort(key=lambda t: t.time, reverse=True): descending by time,
\* items of equal time staying in the order they had (list.sort is stable).
RECURSIVE sort_by_time_reverse(_)
sort_by_time_reverse(txns) ==
    IF txns = <<>> THEN <<>>
    ELSE LET sorted == sort_by_time_reverse(SubSeq(txns, 1, Len(txns) - 1))
             x == txns[Len(txns)]
             k == Cardinality({i \in DOMAIN sorted : sorted[i].time >= x.time})
         IN  SubSeq(sorted, 1, k) \o <<x>> \o SubSeq(sorted, k + 1, Len(sorted))

\* arg: the Accounts' uuids in the order they were taken, and the provider's
\* answer for each.
SyncedAll(order, responses, start_date, end_date, now, w, done) ==
    [NoOp EXCEPT !.op = "sync_all",
                 !.arg = [order |-> [i \in DOMAIN order |-> order[i].uuid],
                          responses |-> responses],
                 !.outcome = IF done.error = "" THEN "returned" ELSE "raised",
                 !.error = done.error,
                 !.start = start_date, !.end = end_date, !.now = now,
                 !.call = Some(w),
                 !.fetched = Some(done.transactions),
                 !.result = IF done.error = ""
                            THEN Some(sort_by_time_reverse(done.transactions))
                            ELSE None]

get_transactions_between(start_date, end_date, now) ==
    \E order \in get_accounts(Store) :
    \E responses \in ProviderResponses(order) :
    \E w \in {window_for(start_date, end_date, now)} :
    \E done \in {sync_each(Store, order, responses, w, <<>>)} :
        /\ SetStore(done.store)
        /\ last' = SyncedAll(order, responses, start_date, end_date, now, w, done)

\* The batch passes its bounds on to each account's sync unchanged; the
\* start is held to None here (what the bounds do is the single sync's part).
SyncAll ==
    /\ dispatcher.state = "built"
    /\ \E start_date \in {None}, end_date \in EndArgs, now \in Nows :
          get_transactions_between(start_date, end_date, now)
    /\ UNCHANGED <<categories, dispatcher, saving>>

(***************************************************************************)
(* RouteDispatcher.get_account_balances                                    *)
(***************************************************************************)
BalanceValues == {500}

\* What each adapter's get_account_balance gives, were it called: None for
\* an HTTP error (_get_endpoint raises), or Some cleared balance.
BalanceResponses(apis) ==
    [DOMAIN apis -> {None} \cup {Some(b) : b \in BalanceValues}]

\* _to_account_balance_schema
AccountBalanceSchema(api, balance) ==
    [account_uuid |-> api.account_uuid, cleared_balance |-> balance]

\* for api in self.apis: balances.append(await api.get_account_balance())
\* Nothing catches around the call: an adapter that raises ends the coroutine.
get_account_balances_raises(apis, responses) ==
    \E i \in DOMAIN apis : responses[i] = None

get_account_balances(apis, responses) ==
    [i \in DOMAIN apis |-> AccountBalanceSchema(apis[i], responses[i][1])]

Balances ==
    /\ dispatcher.state = "built"
    /\ \E responses \in BalanceResponses(dispatcher.apis) :
          last' =
             IF get_account_balances_raises(dispatcher.apis, responses)
             THEN [Did("balances", "", responses, "raised", 0)
                      EXCEPT !.error = "HTTPError"]
             ELSE [Did("balances", "", responses, "returned", 0)
                      EXCEPT !.result =
                          Some(get_account_balances(dispatcher.apis, responses))]
    /\ UNCHANGED <<banks, accounts, transactions, categories, dispatcher, saving>>

NextStore ==
    \/ AccountUpsert
    \/ TransactionUpsert
    \/ AccountDelete
    \/ BankDelete
    \/ TransactionsDelete
    \/ TransactionsSelect
    \/ Reset

NextDispatch ==
    \/ AccountRegister
    \/ CategoryInsert
    \/ Build
    \/ Sync

NextBuild ==
    \/ AccountRegister
    \/ AccountRegisterUnknown
    \/ CategoryInsert
    \/ CategoryRemove
    \/ CategoryResolve
    \/ Build

NextBatch ==
    \/ AccountRegisterOneBank
    \/ CategoryInsert
    \/ Build
    \/ SyncAll
    \/ Balances

NextFile ==
    \/ CategoryMutateBegin
    \/ SaveOpen
    \/ SaveDump
    \/ SaveInterrupted
    \/ CategoryLoad
    \/ CategoryResolve

Next == NextStore \/ NextDispatch \/ NextBuild \/ NextBatch \/ NextFile

SpecStore == Init /\ [][NextStore]_vars

SpecDispatch == Init /\ [][NextDispatch]_vars

SpecBuild == Init /\ [][NextBuild]_vars

SpecBatch == Init /\ [][NextBatch]_vars

SpecFile == Init /\ [][NextFile]_vars

Spec == Init /\ [][Next]_vars

(***************************************************************************)
(*                              THE CLAIMS                                 *)
(***************************************************************************)
UniqueUuids(S) ==
    /\ \A r1, r2 \in S.accounts : r1.uuid = r2.uuid => r1 = r2
    /\ \A r1, r2 \in S.transactions : r1.uuid = r2.uuid => r1 = r2

\* The stored Account r holds the fields of the AccountSchema given.
HoldsAccountFields(r, account) ==
    /\ r.uuid = account.uuid
    /\ r.name = account.account_name
    /\ r.currency = account.currency
    /\ r.created_at = account.created_at

\* The stored Transaction r holds the fields of the TransactionSchema given
\* (the amount compared in minor units).
HoldsTransactionFields(r, t) ==
    /\ r.uuid = t.uuid
    /\ r.time = t.time
    /\ r.counterparty_name = t.counterparty_name
    /\ r.amount = t.amount
    /\ r.reference = t.reference

\* C1: upserting the same Account, or the same Transaction, twice with
\* identical fields leaves exactly one stored record with that uuid and
\* those fields, and the store never holds two Accounts or two Transactions
\* with the same uuid.  (The state is the one after the first upsert; the
\* second is applied to it.  The owning Bank / Account is left out of
\* "those fields".)
C1_UpsertTwiceLeavesOneRecordWithThoseFields ==
    /\ UniqueUuids(Store)
    /\ last.op = "account_upsert" =>
          LET S2 == insert_or_update_account(Store, last.arg.bank_name, last.arg.account)
              R == AccountsWithUuid(S2, last.id)
          IN  /\ Cardinality(R) = 1
              /\ \A r \in R : HoldsAccountFields(r, last.arg.account)
    /\ (last.op = "transaction_upsert" /\ last.outcome = "ok") =>
          LET S2 == insert_or_update_transaction(Store, last.arg)
              R == TransactionsWithUuid(S2, last.id)
          IN  /\ Cardinality(R) = 1
              /\ \A r \in R : HoldsTransactionFields(r, last.arg)

\* C2: upserting an Account or Transaction whose uuid is already stored, with
\* changed fields, leaves the record of that uuid with the new field values
\* and the numbers of stored Accounts and Transactions as they were.
C2_UpsertExistingReplacesFields ==
    [][/\ (last'.op = "account_upsert" /\ AccountsWithUuid(Store, last'.id) # {}) =>
            /\ \A r \in AccountsWithUuid(Store', last'.id) :
                   HoldsAccountFields(r, last'.arg.account)
            /\ Cardinality(accounts') = Cardinality(accounts)
            /\ Cardinality(transactions') = Cardinality(transactions)
       /\ (last'.op = "transaction_upsert" /\ TransactionsWithUuid(Store, last'.id) # {}) =>
            /\ \A r \in TransactionsWithUuid(Store', last'.id) :
                   HoldsTransactionFields(r, last'.arg)
            /\ Cardinality(accounts') = Cardinality(accounts)
            /\ Cardinality(transactions') = Cardinality(transactions)]_vars

\* C3: deleting an Account removes that Account and exactly the Transactions
\* it owns: the Transactions of every other Account stay stored unchanged,
\* none of the deleted Account remains, and no other Account or Bank goes.
C3_AccountDeleteRemovesOwnTransactionsOnly ==
    [][last'.op = "account_delete" =>
          /\ AccountsWithUuid(Store', last'.id) = {}
          /\ accounts' = accounts \ AccountsWithUuid(Store, last'.id)
          /\ TransactionsOfAccount(Store', last'.id) = {}
          /\ transactions' = transactions \ TransactionsOfAccount(Store, last'.id)
          /\ banks' = banks]_vars

\* An Account that owned Transactions was deleted and another Account's
\* Transactions are still stored.
C3_Witness ==
    /\ last.op = "account_delete"
    /\ last.removed > 0
    /\ transactions # {}

\* C4: every stored Transaction references an Account that is stored now,
\* whatever upserts and deletes came before; an upsert naming an Account
\* that is not stored leaves no ownerless Transaction.
C4_NoOrphanTransactions ==
    \A t \in transactions : \E a \in accounts : a.uuid = t.account

\* An upsert named an Account that is not stored (the query raised), with
\* Transactions in the store.
C4_Witness ==
    /\ last.op = "transaction_upsert"
    /\ last.outcome = "raised"
    /\ transactions # {}

\* C5: deleting a Bank by name removes that Bank, the Accounts it owns and
\* their Transactions, and leaves every other Bank, Account and Transaction.
C5_BankDeleteCascades ==
    [][last'.op = "bank_delete" =>
          /\ banks' = {b \in banks : b.name # last'.id}
          /\ accounts' = accounts \ AccountsOfBank(Store, last'.id)
          /\ transactions' =
                {t \in transactions :
                    t.account \notin {a.uuid : a \in AccountsOfBank(Store, last'.id)}}]_vars

\* A Bank that owned Accounts was deleted, and another Bank's Account, with
\* Transactions, is still stored.
C5_Witness ==
    /\ last.op = "bank_delete"
    /\ last.removed > 0
    /\ accounts # {}
    /\ transactions # {}

\* C6: the account-scoped bulk delete removes the Transactions of the given
\* Account and nothing else: the Account stays, and so do the Transactions
\* of every other Account.
C6_TransactionsDeleteIsAccountScoped ==
    [][last'.op = "transactions_delete" =>
          /\ transactions' = transactions \ TransactionsOfAccount(Store, last'.id)
          /\ TransactionsOfAccount(Store', last'.id) = {}
          /\ accounts' = accounts
          /\ banks' = banks]_vars

\* The Transactions of a stored Account were bulk-deleted while another
\* Account's Transactions stay stored.
C6_Witness ==
    /\ last.op = "transactions_delete"
    /\ last.removed > 0
    /\ AccountsWithUuid(Store, last.id) # {}
    /\ transactions # {}

C8_DefaultWindow ==
    (last.op = "sync" /\ last.start = None /\ last.end = None /\ last.call # None) =>
        /\ last.call[1].end = Some(last.now)
        /\ last.call[1].start = Some(last.now - 7)

\* A sync with no bounds reached the adapter bound to the account and
\* returned what it fetched.
C8_Witness ==
    /\ last.op = "sync"
    /\ last.start = None
    /\ last.end = None
    /\ last.call # None
    /\ last.outcome = "returned"
    /\ last.result # None
    /\ last.result[1] # <<>>

\* C9: with exactly one bound given only the missing one is defaulted: with
\* start alone the adapter is called with that start and end = now, with end
\* alone it is called with that end and start = end - 7 days; and the
\* adapter is never called with a missing bound.
C9_PartialWindowFallback ==
    (last.op = "sync" /\ last.call # None) =>
        /\ last.call[1].start # None
        /\ last.call[1].end # None
        /\ (last.start # None /\ last.end = None) =>
              /\ last.call[1].start = last.start
              /\ last.call[1].end = Some(last.now)
        /\ (last.start = None /\ last.end # None) =>
              /\ last.call[1].end = last.end
              /\ last.call[1].start = Some(last.end[1] - 7)

\* C10: a single-account sync for an account uuid with no bound adapter
\* returns None without raising, fetches nothing and upserts nothing.
C10_UnboundAccountReturnsNone ==
    [][(last'.op = "sync" /\ _get_api_for_id_raises(dispatcher.apis, last'.id)) =>
          /\ last'.outcome = "returned"
          /\ last'.result = None
          /\ last'.call = None
          /\ last'.fetched = None
          /\ UNCHANGED <<banks, accounts, transactions>>]_vars

\* The stored Transaction r is what upserting t leaves: t's time,
\* counterparty_name and reference, and t's amount as the store casts it.
Upserted(r, t) ==
    /\ r.uuid = t.uuid
    /\ r.time = t.time
    /\ r.counterparty_name = t.counterparty_name
    /\ r.amount = Float32(t.amount)
    /\ r.reference = t.reference

\* The position of the last item of txns with the uuid of txns[i].
LastWithUuid(txns, i) ==
    CHOOSE j \in DOMAIN txns :
        /\ txns[j].uuid = txns[i].uuid
        /\ \A k \in DOMAIN txns : txns[k].uuid = txns[i].uuid => k <= j

C12_SyncReplayIsIdempotent ==
    (last.op = "sync" /\ last.outcome = "returned") =>
        LET again == upsert_each(Store, last.fetched[1])
        IN  /\ ~again.raised
            /\ again.store = Store
            /\ UniqueUuids(again.store)

\* A sync returned a non-empty list and the store holds two Transactions,
\* one of them with the later time.
C12_Witness ==
    /\ last.op = "sync"
    /\ last.outcome = "returned"
    /\ last.fetched # None
    /\ last.fetched[1] # <<>>
    /\ Cardinality(transactions) = 2
    /\ \E r \in transactions : r.time = 2

C16_MissingCategoryIsolated ==
    [][(last'.op = "build"
          /\ \A a \in accounts : ~get_class_for_bank_name_raises(a.bank)) =>
          \A a \in accounts :
              ~StarlingProvider_init_raises(a.uuid) =>
                  \E i \in DOMAIN dispatcher'.apis :
                      dispatcher'.apis[i].account_uuid = a.uuid]_vars

\* C18: CategoryHelper's lookup returns the category stored for the account
\* when there is one, and returns None, without raising, when there is none.
C18_ResolveReturnsCategoryOrNone ==
    last.op = "category_resolve" =>
        /\ last.outcome = "returned"
        /\ last.result = IF last.id \in DOMAIN categories
                         THEN Some(categories[last.id])
                         ELSE None

\* In the batch recorded in op, the sync of the i-th Account would succeed
\* on its own: an adapter is bound to it, the bounds reach the provider and
\* the provider answers.
SyncsAlone(op, apis, i) ==
    /\ ~_get_api_for_id_raises(apis, op.arg.order[i])
    /\ ~get_transactions_between_raises(op.call[1].start, op.call[1].end)
    /\ op.arg.responses[i] # None

\* C13: in the sync of all accounts, an Account whose own sync fails (its
\* provider call raises, or no adapter is bound to it) does not keep the
\* others from being synced: every transaction fetched for an Account whose
\* sync succeeds on its own is stored and is in the list returned.
C13_BatchSyncIsolatesFailures ==
    [][last'.op = "sync_all" =>
          \A i \in DOMAIN last'.arg.order :
              SyncsAlone(last', dispatcher.apis, i) =>
                  /\ last'.result # None
                  /\ \A k \in DOMAIN last'.arg.responses[i][1] :
                        LET t == last'.arg.responses[i][1][k]
                        IN  /\ TransactionsWithUuid(Store', t.uuid) # {}
                            /\ \E j \in DOMAIN last'.result[1] :
                                  last'.result[1][j] = t]_vars

\* C14: get_account_balances returns one result per bound adapter, in the
\* order of the adapter list, and an adapter whose balance call fails does
\* not abort the batch: the balance of every other adapter is returned, at
\* its adapter's place.
C14_BalancesIsolateFailures ==
    last.op = "balances" =>
        /\ last.result # None
        /\ Len(last.result[1]) = Len(dispatcher.apis)
        /\ \A i \in DOMAIN dispatcher.apis :
              last.arg[i] # None =>
                  last.result[1][i] =
                      AccountBalanceSchema(dispatcher.apis[i], last.arg[i][1])

RECURSIVE Flatten(_)
Flatten(responses) ==
    IF responses = <<>> THEN <<>>
    ELSE Head(responses)[1] \o Flatten(Tail(responses))

Occurrences(txns, t) == Cardinality({i \in DOMAIN txns : txns[i] = t})

\* C17: the sync of all accounts takes every stored Account, and what it
\* returns is the concatenation of the per-account results rearranged --
\* the same transactions, each as often -- in descending order of time:
\* of two adjacent ones the first has time >= the second.
C17_BatchSyncSortedDescending ==
    (last.op = "sync_all" /\ last.outcome = "returned") =>
        /\ {last.arg.order[i] : i \in DOMAIN last.arg.order} = {a.uuid : a \in accounts}
        /\ Len(last.arg.order) = Cardinality(accounts)
        /\ \A t \in TransactionSchema :
              Occurrences(last.result[1], t) = Occurrences(Flatten(last.arg.responses), t)
        /\ \A i \in 1..(Len(last.result[1]) - 1) :
              last.result[1][i].time >= last.result[1][i + 1].time

\* A batch over two Accounts returned two transactions of different times
\* that the concatenation had in the other order.
C17_Witness ==
    /\ last.op = "sync_all"
    /\ last.outcome = "returned"
    /\ Len(last.arg.order) = 2
    /\ Len(last.result[1]) = 2
    /\ last.result[1][1].time > last.result[1][2].time
    /\ last.result[1] # Flatten(last.arg.responses)

\* C19: selecting the transactions of a stored Account that has none
\* returns None; selecting those of a stored Account with n Transactions
\* returns exactly these n (their uuid and amount, as the query selects).
C19_SelectTransactionsNoneOrAll ==
    (last.op = "transactions_select" /\ AccountsWithUuid(Store, last.id) # {}) =>
        /\ last.outcome = "returned"
        /\ IF TransactionsOfAccount(Store, last.id) = {}
           THEN last.result = None
           ELSE /\ last.result # None
                /\ UNION {x.transactions : x \in last.result[1]} =
                      {[uuid |-> t.uuid, amount |-> t.amount] :
                          t \in TransactionsOfAccount(Store, last.id)}

\* C20: when the provider fetch of a single-account sync raises, nothing is
\* upserted and the store is as it was before the sync; and a sync changes
\* or adds only Transactions it received from the provider.
C20_FailedFetchLeavesStore ==
    [][last'.op = "sync" =>
          /\ (last'.call # None /\ last'.fetched = None) =>
                (last'.outcome = "raised" /\ Store' = Store)
          /\ last'.fetched # None =>
                /\ banks' = banks
                /\ accounts' = accounts
                /\ \A r \in transactions' \ transactions :
                      \E i \in DOMAIN last'.fetched[1] :
                          last'.fetched[1][i].uuid = r.uuid]_vars

\* The provider's request failed in a sync over a store that holds
\* Transactions.
C20_Witness ==
    /\ last.op = "sync"
    /\ last.outcome = "raised"
    /\ last.error = "HTTPError"
    /\ last.call # None
    /\ last.fetched = None
    /\ transactions # {}

\* C21: building an adapter for an Account with no default category stored
\* fails in the constructor, before any fetch; so whenever a sync calls an
\* adapter's get_transactions_between, that adapter holds a default category.
C21_AdapterConstructionFailsFast ==
    [][/\ (last'.op = "build"
             /\ \E a \in accounts : a.uuid \notin DOMAIN categories) =>
             /\ last'.outcome = "raised"
             /\ dispatcher'.state = "failed"
             /\ dispatcher'.apis = <<>>
             /\ Store' = Store
       /\ (last'.op = "sync" /\ last'.call # None) =>
             _get_api_for_id(dispatcher.apis, last'.id).default_category \in CategoryIds
       /\ dispatcher'.state = "built" =>
             \A i \in DOMAIN dispatcher'.apis :
                 dispatcher'.apis[i].default_category \in CategoryIds]_vars

\* A build failed in an adapter's constructor for want of a category, while
\* another stored Account has one.
C21_Witness ==
    /\ last.op = "build"
    /\ last.outcome = "raised"
    /\ last.error = "TypeError"
    /\ \E a \in accounts : a.uuid \notin DOMAIN categories
    /\ \E a \in accounts : a.uuid \in DOMAIN categories

\* C22: a Dispatcher that was built holds exactly one adapter for each
\* Account stored at build time -- none missing, none bound twice -- bound
\* to the Account's uuid and to the name and the auth credential of the Bank
\* that owns the Account.
C22_OneAdapterPerAccount ==
    [][(last'.op = "build" /\ last'.outcome = "ok") =>
          /\ dispatcher'.state = "built"
          /\ Len(dispatcher'.apis) = Cardinality(accounts)
          /\ \A a \in accounts :
                \E i \in DOMAIN dispatcher'.apis :
                    /\ dispatcher'.apis[i].account_uuid = a.uuid
                    /\ dispatcher'.apis[i].bank_name = a.bank
                    /\ \E b \in banks :
                          /\ b.name = a.bank
                          /\ dispatcher'.apis[i].auth_token = b.auth_token_hash
                    /\ \A j \in DOMAIN dispatcher'.apis :
                          dispatcher'.apis[j].account_uuid = a.uuid => j = i]_vars

\* A Dispatcher was built over two Accounts of two Banks.
C22_Witness ==
    /\ last.op = "build"
    /\ last.outcome = "ok"
    /\ dispatcher.state = "built"
    /\ Len(dispatcher.apis) = 2
    /\ dispatcher.apis[1].bank_name # dispatcher.apis[2].bank_name

\* C23: a single-account sync called with both start and end calls the
\* adapter with exactly these two bounds, not with the default window.
C23_GivenBoundsAreUsed ==
    (last.op = "sync" /\ last.start # None /\ last.end # None /\ last.call # None) =>
        /\ last.call[1].start = last.start
        /\ last.call[1].end = last.end

\* C24: a CategoryHelper mutation rewrites the file atomically: at every
\* moment of a mutation, and after one was interrupted, the file holds the
\* complete contents from before the mutation or the complete contents after
\* it, and that is what a read at that moment gets -- never an empty or
\* partly written store.
C24_FileRewriteIsAtomic ==
    saving # None =>
        /\ categories \in {saving[1].before, saving[1].after}
        /\ last.op = "category_load" =>
              last.result[1] \in {saving[1].before, saving[1].after}

\* C25: upserting a Transaction whose uuid is stored under another Account
\* than the one the upsert names updates time, counterparty_name, amount
\* and reference only: the Transaction stays with its Account, and nothing
\* else in the store changes.
C25_UpsertKeepsOwner ==
    [][last'.op = "transaction_upsert" =>
          \A r \in TransactionsWithUuid(Store, last'.id) :
              r.account # last'.arg.account_uuid =>
                  /\ transactions' =
                        (transactions \ {r}) \cup
                        {[r EXCEPT !.time = last'.arg.time,
                                   !.counterparty_name = last'.arg.counterparty_name,
                                   !.amount = Float32(last'.arg.amount),
                                   !.reference = last'.arg.reference]}
                  /\ \A q \in TransactionsWithUuid(Store', last'.id) :
                        q.account = r.account
                  /\ accounts' = accounts
                  /\ banks' = banks]_vars

\* An upsert that named another stored Account went through, and the
\* Transaction, with the upsert's reference, is still with its own Account.
C25_Witness ==
    /\ last.op = "transaction_upsert"
    /\ last.outcome = "ok"
    /\ AccountsWithUuid(Store, last.arg.account_uuid) # {}
    /\ \E r \in TransactionsWithUuid(Store, last.id) :
          /\ r.account # last.arg.account_uuid
          /\ AccountsWithUuid(Store, r.account) # {}
          /\ r.reference = last.arg.reference

====
